---- MODULE Spec2Model ----
(***************************************************************************)
(* A model of main.py: the eight FastAPI path operations, the pydantic     *)
(* models they declare, and the validate-then-handle life of a request.    *)
(*                                                                         *)
(* JSON / Python values are tagged records, so that a null, a string, an   *)
(* integer and an enum member can sit in the same dictionary:              *)
(*   JStr(s), JInt(i), JBool(b), JNull, JList (an empty JSON array, the    *)
(*   "wrong type" input every validator rejects), JEnum(s) (a HairColor    *)
(*   member), Missing (the key is not in the request at all).              *)
(* Inputs stay inside the typed domain: numeric strings, "yes"/"no" and    *)
(* the other lax coercions of the validation layer are not drawn.          *)
(***************************************************************************)
EXTENDS Integers, Sequences, FiniteSets, TLC

VARIABLES
    persons,      \* the module-level list main.py:135
    coerce,       \* whether the installed validation layer reads the str limits
                  \* of Location.country ('1', '50') as integers; fixed at start
    pc,           \* per worker: "idle", "validate", "handle", "done"
    req,          \* per worker: the request being served
    args,         \* per worker: the validated arguments handed to the handler
    resp,         \* per worker: the response
    ran           \* per worker: whether the handler body was entered

vars == <<persons, coerce, pc, req, args, resp, ran>>

---------------------------------------------------------------------------
(* Bounds of the model. *)

\* integers are drawn this far on either side of every numeric limit
Slack == 1
\* largest upload, in bytes
MaxFileBytes == 2048
\* workers serving requests at the same time in ConcSpec
NumWorkers == 2

---------------------------------------------------------------------------
(* Values. *)

JStr(s) == [t |-> "str", s |-> s]
JInt(i) == [t |-> "int", i |-> i]
JBool(b) == [t |-> "bool", b |-> b]
JNull == [t |-> "null"]
JList == [t |-> "list"]
JEnum(s) == [t |-> "HairColor", s |-> s]
Missing == [t |-> "missing"]

RECURSIVE StrOfLen(_)
StrOfLen(n) == IF n = 0 THEN "" ELSE "x" \o StrOfLen(n - 1)

Digit(d) ==
    CASE d = 0 -> "0" [] d = 1 -> "1" [] d = 2 -> "2" [] d = 3 -> "3"
      [] d = 4 -> "4" [] d = 5 -> "5" [] d = 6 -> "6" [] d = 7 -> "7"
      [] d = 8 -> "8" [] d = 9 -> "9"

\* str(n) for n >= 0
RECURSIVE ToStr(_)
ToStr(n) == IF n < 10 THEN Digit(n) ELSE ToStr(n \div 10) \o Digit(n % 10)

\* int(s) for a decimal literal below 100
IntOfStr(s) == CHOOSE n \in 0..99 : ToStr(n) = s

\* d.get(k): Missing when the key is not there
Get(d, k) == IF k \in DOMAIN d THEN d[k] ELSE Missing

\* a dictionary written with Missing entries, as the dictionary without them
Dict(r) == [k \in {n \in DOMAIN r : r[n] # Missing} |-> r[k]]

---------------------------------------------------------------------------
(* The models: one declaration per field, as Field(...) is called.         *)

\* a value that failed validation; for a model, with the fields that failed
Invalid == [t |-> "invalid"]
InvalidModel(fields) == [t |-> "invalid", fields |-> fields]
IsInvalid(v) == "t" \in DOMAIN v /\ v.t = "invalid"

\* a field with no default is required; a limit that is not given is JNull
Field(type, required) ==
    [type |-> type, required |-> required, default |-> JNull,
     min_length |-> JNull, max_length |-> JNull, gt |-> JNull, le |-> JNull]

\* HairColor with one value misspelt
HairColor_misspelt == {"white", "brown", "black", "blond", "red"}

HairColor == {"white", "brown", "black", "blonde", "red"}

Location ==
    [city    |-> [Field("str", TRUE) EXCEPT !.min_length = JInt(1), !.max_length = JInt(50)],
     state   |-> [Field("str", TRUE) EXCEPT !.min_length = JInt(1), !.max_length = JInt(50)],
     country |-> [Field("str", TRUE) EXCEPT !.min_length = JStr("1"), !.max_length = JStr("50")]]

\* PersonBase with age declared lt=115 where the code says le=115
PersonBase_age_lt ==
    [first_name |-> [Field("str", TRUE) EXCEPT !.min_length = JInt(1), !.max_length = JInt(50)],
     last_name  |-> [Field("str", TRUE) EXCEPT !.min_length = JInt(1), !.max_length = JInt(50)],
     age        |-> [Field("int", TRUE) EXCEPT !.gt = JInt(0), !.le = JInt(114)],
     hair_color |-> Field("HairColor", FALSE),
     is_married |-> Field("bool", FALSE)]

PersonBase ==
    [first_name |-> [Field("str", TRUE) EXCEPT !.min_length = JInt(1), !.max_length = JInt(50)],
     last_name  |-> [Field("str", TRUE) EXCEPT !.min_length = JInt(1), !.max_length = JInt(50)],
     age        |-> [Field("int", TRUE) EXCEPT !.gt = JInt(0), !.le = JInt(115)],
     hair_color |-> Field("HairColor", FALSE),
     is_married |-> Field("bool", FALSE)]

\* Person with the password's min_length left out
Person_any_password ==
    [n \in DOMAIN PersonBase \cup {"password"} |->
        IF n = "password" THEN Field("str", TRUE) ELSE PersonBase[n]]

Person ==
    [n \in DOMAIN PersonBase \cup {"password"} |->
        IF n = "password" THEN [Field("str", TRUE) EXCEPT !.min_length = JInt(8)]
        ELSE PersonBase[n]]

PersonOut == PersonBase

LoginOut ==
    [username |-> [Field("str", TRUE) EXCEPT !.max_length = JInt(20)],
     message  |-> [Field("str", FALSE) EXCEPT !.default = JStr("Login Successfully!")]]

---------------------------------------------------------------------------
(* The validation layer, as far as these declarations use it.              *)

\* A limit compares with an int when it is one. A str limit ('1', '50') either
\* raises TypeError in the comparison, which the validation layer reports as a
\* validation error of the field, or is coerced to int when the class is built:
\* which of the two depends on the installed validation layer (coerce).
LimitUsable(limit) == limit.t = "int" \/ (limit.t = "str" /\ coerce)
LimitValue(limit) == IF limit.t = "int" THEN limit.i ELSE IntOfStr(limit.s)

AtLeast(n, limit) == limit = JNull \/ (LimitUsable(limit) /\ n >= LimitValue(limit))
AtMost(n, limit) == limit = JNull \/ (LimitUsable(limit) /\ n <= LimitValue(limit))
Above(n, limit) == limit = JNull \/ (LimitUsable(limit) /\ n > LimitValue(limit))

\* well-formed addresses among the ones drawn (EmailStr's check is the library's)
WellFormedEmails == {"john@example.com"}

\* the validated value of a field, or Invalid
ValidateField(decl, v) ==
    CASE v = Missing -> IF decl.required THEN Invalid ELSE decl.default
      [] v = JNull -> IF decl.required THEN Invalid ELSE JNull
      [] OTHER ->
        CASE decl.type = "str" ->
               IF /\ v.t = "str"
                  /\ AtLeast(Len(v.s), decl.min_length)
                  /\ AtMost(Len(v.s), decl.max_length)
               THEN v ELSE Invalid
          [] decl.type = "int" ->
               IF v.t = "int" /\ Above(v.i, decl.gt) /\ AtMost(v.i, decl.le)
               THEN v ELSE Invalid
          [] decl.type = "bool" -> IF v.t = "bool" THEN v ELSE Invalid
          [] decl.type = "HairColor" ->
               IF v.t = "HairColor" \/ (v.t = "str" /\ v.s \in HairColor)
               THEN JEnum(v.s) ELSE Invalid
          [] decl.type = "EmailStr" ->
               IF v.t = "str" /\ v.s \in WellFormedEmails THEN v ELSE Invalid

\* Model(**body): every declared field validated, undeclared keys ignored
ValidateModel(model, body) ==
    IF body \in {Missing, JNull} THEN Invalid
    ELSE LET values == [n \in DOMAIN model |-> ValidateField(model[n], Get(body, n))]
             bad == {n \in DOMAIN model : values[n] = Invalid}
         IN  IF bad # {} THEN InvalidModel(bad) ELSE values

\* jsonable_encoder: an enum member is written as its value, a dictionary
\* entry by entry
Encode(v) == IF v.t = "HairColor" THEN JStr(v.s) ELSE v
EncodeDict(d) == [k \in DOMAIN d |-> Encode(d[k])]

\* dict.update: the second dictionary's entries win
Update(d1, d2) ==
    [k \in DOMAIN d1 \cup DOMAIN d2 |-> IF k \in DOMAIN d2 THEN d2[k] ELSE d1[k]]

\* the size cut to two decimals instead of rounded
Round2_floor(n) == (100 * n) \div 1024

\* round(n / 1024, ndigits=2), in hundredths: n / 1024 is exact in binary
\* floating point, and round() rounds the exact value, a tie to the even digit
Round2(n) ==
    LET q == (100 * n) \div 1024
        r == (100 * n) % 1024
    IN  IF 2 * r > 1024 \/ (2 * r = 1024 /\ q % 2 = 1) THEN q + 1 ELSE q

JFloat(h) == [t |-> "float", hundredths |-> h]

---------------------------------------------------------------------------
(* Responses. *)

Response(status, body) == [status |-> status, body |-> body]
NoResponse == Response(0, JNull)

\* the validation layer's answer: one entry per value that failed
RequestValidationError(locs) ==
    Response(422, [detail |-> [t |-> "errors", loc |-> locs]])

\* raise HTTPException(status_code, detail)
HTTPException(status, detail) == Response(status, [detail |-> JStr(detail)])

\* any other exception leaving a handler
InternalServerError == Response(500, JStr("Internal Server Error"))

\* What a path operation answers when its function returns content: with a
\* response_model the content is read as that model (fields the model does not
\* declare are dropped; content the model rejects is a server error), then encoded
Route(status_code, response_model, content) ==
    LET v == ValidateModel(response_model, content)
    IN  IF IsInvalid(v) THEN InternalServerError
        ELSE Response(status_code, EncodeDict(v))

---------------------------------------------------------------------------
(* The path operations: the decorator's settings and the function's body.  *)

\* main.py:135
Persons0 == <<1, 2, 3, 4, 5, 6, 7>>

Range(seq) == {seq[i] : i \in DOMAIN seq}

home == Response(200, [Hello |-> JStr("World")])

\* the path operation declared with response_model=Person
create_person_response_model_in == Person

create_person_response_model == PersonOut

create_person(person) == Route(201, create_person_response_model, person)

\* {name: age}; a None key is written "null"
show_person_query(name, age) ==
    Response(200, (IF name = JNull THEN "null" ELSE name.s) :> age)

\* show_person that skips the membership test
show_person_unchecked(ps, person_id) ==
    [persons |-> ps,
     resp |-> Response(200, ToStr(person_id.i) :> JStr("It exists!"))]

\* show_person that remembers every id it was asked for
show_person_remember(ps, person_id) ==
    [persons |-> IF person_id.i \in Range(ps) THEN ps ELSE Append(ps, person_id.i),
     resp |-> IF person_id.i \notin Range(ps)
              THEN HTTPException(404, "This person does not exist!")
              ELSE Response(200, ToStr(person_id.i) :> JStr("It exists!"))]

\* the handler reads the module-level list ps; the list it leaves behind is
\* part of its result
show_person(ps, person_id) ==
    [persons |-> ps,
     resp |-> IF person_id.i \notin Range(ps)
              THEN HTTPException(404, "This person does not exist!")
              ELSE Response(200, ToStr(person_id.i) :> JStr("It exists!"))]

update_person(person_id, person, location) ==
    Response(200, EncodeDict(Update(person, location)))

\* LoginOut(username=username) validates its argument and raises on failure
login(username, password) ==
    LET out == ValidateModel(LoginOut, [username |-> username])
    IN  IF IsInvalid(out) THEN InternalServerError
        ELSE Route(200, LoginOut, out)

contact(first_name, last_name, email, message, user_agent, ads) ==
    Response(200, user_agent)

\* image.size is len(image.file.read())
post_image(image) ==
    Response(200, ("Filename" :> JStr(image.filename))
               @@ ("Format" :> JStr(image.content_type))
               @@ ("Size(kb)" :> JFloat(Round2(image.size))))

---------------------------------------------------------------------------
(* Parameter declarations of the path operations.                          *)

\* a form field sent empty counts as not sent
FormValue(v) == IF v = JStr("") THEN Missing ELSE v

\* the validated arguments of a request, Invalid where a parameter failed
ValidateRequest(r) ==
    CASE r.ep = "home" -> [k \in {} |-> Invalid]
      [] r.ep = "create_person" -> [person |-> ValidateModel(Person, r.person)]
      [] r.ep = "show_person_query" ->
           [name |-> ValidateField(
                [Field("str", FALSE) EXCEPT !.min_length = JInt(1), !.max_length = JInt(50)],
                r.name),
            age |-> ValidateField(Field("str", TRUE), r.age)]
      [] r.ep = "show_person" ->
           [person_id |-> ValidateField([Field("int", TRUE) EXCEPT !.gt = JInt(0)], r.person_id)]
      [] r.ep = "update_person" ->
           [person_id |-> ValidateField([Field("int", TRUE) EXCEPT !.gt = JInt(0)], r.person_id),
            person |-> ValidateModel(Person, r.person),
            location |-> ValidateModel(Location, r.location)]
      [] r.ep = "login" ->
           [username |-> ValidateField(Field("str", TRUE), FormValue(r.username)),
            password |-> ValidateField(Field("str", TRUE), FormValue(r.password))]
      [] r.ep = "contact" ->
           [first_name |-> ValidateField(
                [Field("str", TRUE) EXCEPT !.max_length = JInt(20), !.min_length = JInt(1)],
                FormValue(r.first_name)),
            last_name |-> ValidateField(
                [Field("str", TRUE) EXCEPT !.max_length = JInt(20), !.min_length = JInt(1)],
                FormValue(r.last_name)),
            email |-> ValidateField(Field("EmailStr", TRUE), FormValue(r.email)),
            message |-> ValidateField(
                [Field("str", TRUE) EXCEPT !.min_length = JInt(20)], FormValue(r.message)),
            user_agent |-> ValidateField(Field("str", FALSE), r.user_agent),
            ads |-> ValidateField(Field("str", FALSE), r.ads)]
      [] r.ep = "post_image" ->
           [image |-> IF r.image = Missing THEN Invalid ELSE r.image]

Failed(a) == {k \in DOMAIN a : IsInvalid(a[k])}

\* where the errors are: <<parameter>>, or <<parameter, field>> inside a model
ErrorLocs(a) ==
    UNION {IF "fields" \in DOMAIN a[k] THEN {<<k, f>> : f \in a[k].fields} ELSE {<<k>>} :
            k \in Failed(a)}

---------------------------------------------------------------------------
(* The requests drawn. Lengths and numbers sit on either side of each      *)
(* declared limit.                                                         *)

Lens(lo, hi) == {n \in ((lo - Slack)..lo) \cup (hi..(hi + Slack)) : n >= 0}
Strs(L) == {JStr(StrOfLen(n)) : n \in L}
Near(n) == (n - Slack)..(n + Slack)

PersonBody(fn, ln, ag, hc, im, pw) ==
    Dict([first_name |-> fn, last_name |-> ln, age |-> ag, hair_color |-> hc,
          is_married |-> im, password |-> pw])

LocationBody(ci, st, co) == Dict([city |-> ci, state |-> st, country |-> co])

FirstNames == {Missing, JNull, JList} \cup Strs(Lens(1, 50))
LastNames == {Missing, JStr(""), JStr("McLane")}
Ages == {Missing, JList} \cup {JInt(n) : n \in Near(0) \cup Near(115)}
HairColors ==
    {Missing, JNull, JList} \cup {JStr(h) : h \in HairColor \cup {"Red", "green", ""}}
Marrieds == {Missing, JNull, JBool(TRUE), JBool(FALSE), JList}
Passwords == {Missing} \cup Strs((8 - Slack)..8)

PersonIds(around) == {JStr("abc")} \cup {JInt(n) : n \in around}

Image(n) == [filename |-> "photo.png", content_type |-> "image/png", size |-> n]

\* the few requests the concurrent workers draw from
JohnBody(pw) ==
    PersonBody(JStr("John"), JStr("McLane"), JInt(115), JStr("black"), Missing, pw)

ConcRequests ==
    {[ep |-> "home"],
     [ep |-> "create_person", person |-> JohnBody(JStr("secretpw"))],
     [ep |-> "show_person_query", name |-> JStr("Dulce"), age |-> JStr("22")],
     [ep |-> "update_person", person_id |-> JInt(5),
      person |-> JohnBody(JStr("secretpw")),
      location |-> LocationBody(JStr("Coatzacoalcos"), JStr("Veracruz"), JStr("Mexico"))],
     [ep |-> "login", username |-> JStr("john2021"), password |-> JStr("secretpw")],
     [ep |-> "contact", first_name |-> JStr("John"), last_name |-> JStr("Doe"),
      email |-> JStr("john@example.com"), message |-> JStr(StrOfLen(20)),
      user_agent |-> JStr("curl/8.0"), ads |-> Missing],
     [ep |-> "post_image", image |-> Image(MaxFileBytes)]}
    \cup {[ep |-> "show_person", person_id |-> JInt(n)] :
            n \in {0, Len(Persons0) - Slack, Len(Persons0), Len(Persons0) + Slack}}

---------------------------------------------------------------------------
(* The state machine: a worker takes a request, the framework validates    *)
(* its parameters, the path operation function runs, the response leaves.  *)

NoRequest == [ep |-> "none"]
NoArgs == [k \in {} |-> Invalid]

InitWorkers(W) ==
    /\ persons = Persons0
    /\ coerce \in BOOLEAN
    /\ pc = [s \in W |-> "idle"]
    /\ req = [s \in W |-> NoRequest]
    /\ args = [s \in W |-> NoArgs]
    /\ resp = [s \in W |-> NoResponse]
    /\ ran = [s \in W |-> FALSE]

Init == InitWorkers({1})
ConcInit == InitWorkers(1..NumWorkers)

\* request r arrives at the idle worker s
Arrive(s, r) ==
    /\ req' = [req EXCEPT ![s] = r]
    /\ pc' = [pc EXCEPT ![s] = "validate"]
    /\ UNCHANGED <<persons, coerce, args, resp, ran>>

GetHome(s) ==
    /\ pc[s] = "idle"
    /\ Arrive(s, [ep |-> "home"])

PostPersonNew(s) ==
    /\ pc[s] = "idle"
    /\ \/ Arrive(s, [ep |-> "create_person", person |-> Missing])
       \/ \E fn \in FirstNames, ln \in LastNames, ag \in Ages, hc \in HairColors,
             im \in Marrieds, pw \in Passwords :
              Arrive(s, [ep |-> "create_person",
                         person |-> PersonBody(fn, ln, ag, hc, im, pw)])

GetPersonDetail(s) ==
    /\ pc[s] = "idle"
    /\ \E n \in {Missing} \cup Strs(Lens(1, 50)), a \in {Missing, JStr("22")} :
           Arrive(s, [ep |-> "show_person_query", name |-> n, age |-> a])

GetPersonDetailId(s) ==
    /\ pc[s] = "idle"
    /\ \E i \in PersonIds((0 - Slack)..(Len(Persons0) + 1 + Slack)) :
           Arrive(s, [ep |-> "show_person", person_id |-> i])

PutPerson(s) ==
    /\ pc[s] = "idle"
    /\ \E i \in PersonIds(Near(0) \cup {5}),
          fn \in {JStr(""), JStr("John")},
          ag \in {JInt(n) : n \in Near(0) \cup Near(115)},
          hc \in {Missing, JStr("black")},
          im \in {Missing, JBool(TRUE)},
          pw \in Strs((8 - Slack)..8),
          ci \in {Missing, JStr(""), JStr("Coatzacoalcos")},
          st \in {JStr("Veracruz")} \cup Strs({50 + Slack}),
          co \in {JStr(""), JStr("Mexico")} \cup Strs({50 + Slack}) :
           Arrive(s, [ep |-> "update_person", person_id |-> i,
                      person |-> PersonBody(fn, JStr("McLane"), ag, hc, im, pw),
                      location |-> LocationBody(ci, st, co)])

PostLogin(s) ==
    /\ pc[s] = "idle"
    /\ \E u \in {Missing, JStr(""), JStr("john2021"), JStr("secretpw")}
                 \cup Strs(20..(20 + Slack)),
          p \in {Missing, JStr(""), JStr("secretpw"), JStr("x")} :
           Arrive(s, [ep |-> "login", username |-> u, password |-> p])

PostContact(s) ==
    /\ pc[s] = "idle"
    /\ \E fn \in {Missing} \cup Strs(Lens(1, 20)),
          ln \in {Missing, JStr("Doe")},
          em \in {Missing, JStr("john@example.com"), JStr("john.example.com")},
          ms \in {Missing} \cup Strs((20 - Slack)..20),
          ua \in {Missing, JStr("curl/8.0")},
          ad \in {Missing, JStr("on")} :
           Arrive(s, [ep |-> "contact", first_name |-> fn, last_name |-> ln,
                      email |-> em, message |-> ms, user_agent |-> ua, ads |-> ad])

PostPostImage(s) ==
    /\ pc[s] = "idle"
    /\ \/ Arrive(s, [ep |-> "post_image", image |-> Missing])
       \/ \E n \in 0..MaxFileBytes :
              Arrive(s, [ep |-> "post_image", image |-> Image(n)])

\* any of the few requests of the concurrent workers
Receive(s) ==
    /\ pc[s] = "idle"
    /\ \E r \in ConcRequests : Arrive(s, r)

\* the framework's step before the function: 422 if any parameter failed
Validate(s) ==
    /\ pc[s] = "validate"
    /\ LET a == ValidateRequest(req[s])
       IN  IF Failed(a) # {}
           THEN /\ resp' = [resp EXCEPT ![s] = RequestValidationError(ErrorLocs(a))]
                /\ pc' = [pc EXCEPT ![s] = "done"]
                /\ UNCHANGED args
           ELSE /\ args' = [args EXCEPT ![s] = a]
                /\ pc' = [pc EXCEPT ![s] = "handle"]
                /\ UNCHANGED resp
    /\ UNCHANGED <<persons, coerce, req, ran>>

\* the function of endpoint ep runs on worker s and answers with r
Handle(s, ep, r) ==
    /\ pc[s] = "handle"
    /\ req[s].ep = ep
    /\ ran' = [ran EXCEPT ![s] = TRUE]
    /\ resp' = [resp EXCEPT ![s] = r]
    /\ pc' = [pc EXCEPT ![s] = "done"]
    /\ UNCHANGED <<coerce, req, args>>

Home(s) == Handle(s, "home", home) /\ UNCHANGED persons

CreatePerson(s) ==
    Handle(s, "create_person", create_person(args[s].person)) /\ UNCHANGED persons

ShowPersonQuery(s) ==
    /\ Handle(s, "show_person_query", show_person_query(args[s].name, args[s].age))
    /\ UNCHANGED persons

ShowPerson(s) ==
    /\ Handle(s, "show_person", show_person(persons, args[s].person_id).resp)
    /\ persons' = show_person(persons, args[s].person_id).persons

UpdatePerson(s) ==
    /\ Handle(s, "update_person",
              update_person(args[s].person_id, args[s].person, args[s].location))
    /\ UNCHANGED persons

Login(s) ==
    Handle(s, "login", login(args[s].username, args[s].password)) /\ UNCHANGED persons

Contact(s) ==
    /\ Handle(s, "contact",
              contact(args[s].first_name, args[s].last_name, args[s].email,
                      args[s].message, args[s].user_agent, args[s].ads))
    /\ UNCHANGED persons

PostImage(s) == Handle(s, "post_image", post_image(args[s].image)) /\ UNCHANGED persons

\* the response is sent and the worker is free again
Send(s) ==
    /\ pc[s] = "done"
    /\ pc' = [pc EXCEPT ![s] = "idle"]
    /\ req' = [req EXCEPT ![s] = NoRequest]
    /\ args' = [args EXCEPT ![s] = NoArgs]
    /\ resp' = [resp EXCEPT ![s] = NoResponse]
    /\ ran' = [ran EXCEPT ![s] = FALSE]
    /\ UNCHANGED <<persons, coerce>>

Next ==
    \E s \in {1} :
        \/ GetHome(s)
        \/ PostPersonNew(s)
        \/ GetPersonDetail(s)
        \/ GetPersonDetailId(s)
        \/ PutPerson(s)
        \/ PostLogin(s)
        \/ PostContact(s)
        \/ PostPostImage(s)
        \/ Validate(s)
        \/ Home(s)
        \/ CreatePerson(s)
        \/ ShowPersonQuery(s)
        \/ ShowPerson(s)
        \/ UpdatePerson(s)
        \/ Login(s)
        \/ Contact(s)
        \/ PostImage(s)
        \/ Send(s)

ConcNext ==
    \E s \in 1..NumWorkers :
        \/ Receive(s)
        \/ Validate(s)
        \/ Home(s)
        \/ CreatePerson(s)
        \/ ShowPersonQuery(s)
        \/ ShowPerson(s)
        \/ UpdatePerson(s)
        \/ Login(s)
        \/ Contact(s)
        \/ PostImage(s)
        \/ Send(s)

\* one request at a time, every input drawn
Spec == Init /\ [][Next]_vars

\* NumWorkers requests in flight, interleaved in every order
ConcSpec == ConcInit /\ [][ConcNext]_vars

---------------------------------------------------------------------------
(* What the specification says of a request, written from its data model   *)
(* (section 3) and its operation contracts (section 4.1).                  *)

Done(s) == pc[s] = "done"
On(s, ep) == Done(s) /\ req[s].ep = ep
IsStr(v) == v.t = "str"
StrBetween(v, lo, hi) == v.t = "str" /\ Len(v.s) >= lo /\ Len(v.s) <= hi
Omitted(v) == v \in {Missing, JNull}

GoodAge(v) == v.t = "int" /\ v.i > 0 /\ v.i <= 115
GoodHair(v) ==
    Omitted(v) \/ (v.t = "str" /\ v.s \in {"white", "brown", "black", "blonde", "red"})

GoodPerson(p) ==
    /\ StrBetween(Get(p, "first_name"), 1, 50)
    /\ StrBetween(Get(p, "last_name"), 1, 50)
    /\ GoodAge(Get(p, "age"))
    /\ GoodHair(Get(p, "hair_color"))
    /\ (Omitted(Get(p, "is_married")) \/ Get(p, "is_married").t = "bool")
    /\ IsStr(Get(p, "password")) /\ Len(p.password.s) >= 8

GoodLocation(l) ==
    /\ StrBetween(Get(l, "city"), 1, 50)
    /\ StrBetween(Get(l, "state"), 1, 50)
    /\ StrBetween(Get(l, "country"), 1, 50)

GoodId(v) == v.t = "int" /\ v.i > 0

GoodRequest(r) ==
    CASE r.ep = "home" -> TRUE
      [] r.ep = "create_person" -> GoodPerson(r.person)
      [] r.ep = "show_person_query" ->
           (r.name = Missing \/ StrBetween(r.name, 1, 50)) /\ IsStr(r.age)
      [] r.ep = "show_person" -> GoodId(r.person_id)
      [] r.ep = "update_person" ->
           GoodId(r.person_id) /\ GoodPerson(r.person) /\ GoodLocation(r.location)
      [] r.ep = "login" -> IsStr(r.username) /\ IsStr(r.password)
      [] r.ep = "contact" ->
           /\ StrBetween(r.first_name, 1, 20)
           /\ StrBetween(r.last_name, 1, 20)
           /\ r.email = JStr("john@example.com")
           /\ IsStr(r.message) /\ Len(r.message.s) >= 20
           /\ (r.user_agent = Missing \/ IsStr(r.user_agent))
           /\ (r.ads = Missing \/ IsStr(r.ads))
      [] r.ep = "post_image" -> r.image # Missing

HasPerson(r) == r.ep \in {"create_person", "update_person"} /\ r.person # Missing

\* the place of a Person field in the 422 detail
Rejected(s, field) ==
    resp[s].status = 422 /\ <<"person", field>> \in resp[s].body.detail.loc

PersonOutKeys == {"first_name", "last_name", "age", "hair_color", "is_married"}
LocationKeys == {"city", "state", "country"}

\* the value a response carries for a submitted field: null when it was omitted
Submitted(d, k) == IF Get(d, k) = Missing THEN JNull ELSE d[k]

---------------------------------------------------------------------------
(* The claims. *)

C2_CreatePersonProjection ==
    \A s \in DOMAIN pc :
        (On(s, "create_person") /\ GoodPerson(req[s].person)) =>
            /\ resp[s].status = 201
            /\ DOMAIN resp[s].body = PersonOutKeys
            /\ \A k \in PersonOutKeys : resp[s].body[k] = Submitted(req[s].person, k)
            /\ "password" \notin DOMAIN resp[s].body

\* a valid payload with hair_color given and is_married omitted was answered
C2_Witness ==
    /\ On(1, "create_person")
    /\ GoodPerson(req[1].person)
    /\ Get(req[1].person, "hair_color") = JStr("blonde")
    /\ Get(req[1].person, "is_married") = Missing
    /\ resp[1].status = 201
    /\ resp[1].body.is_married = JNull

\* C3: for every integer person_id, GET /person/detail/{person_id} answers 422
\* if person_id <= 0, 200 with {person_id: "It exists!"} if person_id is one of
\* 1..7, and 404 with detail "This person does not exist!" otherwise.
C3_ShowPersonOutcomes ==
    \A s \in DOMAIN pc :
        (On(s, "show_person") /\ req[s].person_id.t = "int") =>
            LET i == req[s].person_id.i
            IN  /\ i <= 0 => resp[s].status = 422
                /\ (i > 0 /\ i \in 1..7) =>
                       /\ resp[s].status = 200
                       /\ resp[s].body = (ToStr(i) :> JStr("It exists!"))
                /\ (i > 0 /\ i \notin 1..7) =>
                       /\ resp[s].status = 404
                       /\ resp[s].body = [detail |-> JStr("This person does not exist!")]

\* the id just past the known ones was asked for and answered 404
C3_Witness ==
    /\ On(1, "show_person")
    /\ req[1].person_id = JInt(8)
    /\ resp[1].status = 404

\* C4: for every person_id > 0, valid Person and valid Location, PUT
\* /person/{person_id} answers 200 with the union of all Person fields and all
\* Location fields, none lost, the Location value returned for a shared key.
C4_UpdatePersonUnion ==
    \A s \in DOMAIN pc :
        (/\ On(s, "update_person")
         /\ GoodId(req[s].person_id)
         /\ GoodPerson(req[s].person)
         /\ GoodLocation(req[s].location)) =>
            /\ resp[s].status = 200
            /\ DOMAIN resp[s].body = PersonOutKeys \cup {"password"} \cup LocationKeys
            /\ \A k \in DOMAIN resp[s].body :
                   resp[s].body[k] = IF k \in LocationKeys THEN req[s].location[k]
                                     ELSE Submitted(req[s].person, k)

\* C5: for every pair of (non-empty) form strings username and password, POST
\* /login answers 200 with LoginOut{username, 'Login Successfully!'}, and the
\* password is not in the response (unless it is the username itself).
C5_LoginAnswers ==
    \A s \in DOMAIN pc :
        (/\ On(s, "login")
         /\ IsStr(req[s].username) /\ req[s].username.s # ""
         /\ IsStr(req[s].password) /\ req[s].password.s # "") =>
            /\ resp[s].status = 200
            /\ resp[s].body = [username |-> req[s].username,
                               message |-> JStr("Login Successfully!")]
            /\ req[s].password # req[s].username =>
                   \A k \in DOMAIN resp[s].body : resp[s].body[k] # req[s].password

\* C6: the age of a Person body, in POST /person/new and PUT /person/{person_id},
\* is accepted exactly when 0 < age <= 115: an integer <= 0 or >= 116 is answered
\* 422 without the handler, an integer in 1..115 passes validation.
C6_AgeBounds ==
    \A s \in DOMAIN pc :
        (Done(s) /\ HasPerson(req[s]) /\ Get(req[s].person, "age").t = "int") =>
            LET age == req[s].person.age.i
            IN  /\ (age <= 0 \/ age >= 116) => (Rejected(s, "age") /\ ~ran[s])
                /\ (age >= 1 /\ age <= 115) => ~Rejected(s, "age")

\* age 115 went through validation and the payload was answered 201
C6_Witness ==
    /\ On(1, "create_person")
    /\ req[1].person # Missing
    /\ Get(req[1].person, "age") = JInt(115)
    /\ ran[1]
    /\ resp[1].status = 201

\* C7: hair_color is accepted exactly when it is absent, null or one of white,
\* brown, black, blonde, red (case-sensitive); any other string is answered 422
\* and the handler is not invoked.
C7_HairColorEnum ==
    \A s \in DOMAIN pc :
        (Done(s) /\ HasPerson(req[s])) =>
            LET hc == Get(req[s].person, "hair_color")
            IN  /\ GoodHair(hc) => ~Rejected(s, "hair_color")
                /\ (hc.t = "str" /\ ~GoodHair(hc)) =>
                       (Rejected(s, "hair_color") /\ ~ran[s])

\* a payload whose only fault is hair_color "Red" was answered 422
C7_Witness ==
    /\ On(1, "create_person")
    /\ req[1].person # Missing
    /\ Get(req[1].person, "hair_color") = JStr("Red")
    /\ resp[1].status = 422
    /\ resp[1].body.detail.loc = {<<"person", "hair_color">>}
    /\ ~ran[1]

\* C8: for an uploaded file of n bytes, POST /post-image answers with the
\* filename, the content type and the size in kilobytes, n/1024 rounded to 2
\* decimals (a nearest hundredth); a 2048-byte file gives 2.0.
C8_SizeRounded ==
    \A s \in DOMAIN pc :
        (On(s, "post_image") /\ req[s].image # Missing) =>
            LET n == req[s].image.size
                b == resp[s].body
            IN  /\ resp[s].status = 200
                /\ DOMAIN b = {"Filename", "Format", "Size(kb)"}
                /\ b["Filename"] = JStr(req[s].image.filename)
                /\ b["Format"] = JStr(req[s].image.content_type)
                /\ b["Size(kb)"].t = "float"
                /\ LET h == b["Size(kb)"].hundredths
                   IN  /\ 2 * (1024 * h - 100 * n) <= 1024
                       /\ 2 * (100 * n - 1024 * h) <= 1024
                       /\ n = 2048 => h = 200

\* a 2048-byte upload was answered
C8_Witness ==
    /\ On(1, "post_image")
    /\ req[1].image # Missing
    /\ req[1].image.size = 2048
    /\ resp[1].body["Size(kb)"] = JFloat(200)

\* C9: a request with a parameter that violates its constraint is answered 422
\* and its handler never runs; a handler runs only on a request whose parameters
\* are all valid; what a handler answers, a failure included, is never 422.
C9_ValidateBeforeHandle ==
    \A s \in DOMAIN pc :
        /\ (Done(s) /\ ~GoodRequest(req[s])) => (resp[s].status = 422 /\ ~ran[s])
        /\ (pc[s] = "handle" \/ ran[s]) => GoodRequest(req[s])
        /\ ran[s] => resp[s].status # 422

\* a contact form whose only fault is the address was answered 422, unhandled
C9_Witness ==
    /\ On(1, "contact")
    /\ resp[1].status = 422
    /\ resp[1].body.detail.loc = {<<"email">>}
    /\ ~ran[1]

\* C10: under any interleaving of requests the known-ids list stays
\* [1,2,3,4,5,6,7], and two requests with the same inputs get the same response
\* whatever else is being served.
C10_NoSharedState ==
    /\ persons = <<1, 2, 3, 4, 5, 6, 7>>
    /\ \A s, u \in DOMAIN pc :
           (Done(s) /\ Done(u) /\ req[s] = req[u]) => resp[s] = resp[u]

\* two workers hold answers at once: one to a known id, one to an unknown id
C10_Witness ==
    /\ On(1, "show_person") /\ resp[1].status = 200
    /\ On(2, "show_person") /\ resp[2].status = 404

====
